---- MODULE Spec2Model ----
(***************************************************************************)
(* Model of the translation comparison demo: the Language registry, the    *)
(* three backends of model.py (HelsinkiItc, FacebookMbart, AwsTranslate)   *)
(* and the Streamlit driver of main.py.                                    *)
(*                                                                         *)
(* A Python str is a sequence of one-character strings, so that the        *)
(* f-string of HelsinkiItc.predict, json.dumps and json.loads are computed *)
(* character by character.  A code point outside ASCII is one element      *)
(* named "U+XXXX"; a byte of a response body outside ASCII is one element  *)
(* named "0xXX".                                                           *)
(*                                                                         *)
(* FacebookLocalMbart (model.py:103-137) is constructed nowhere: it is not *)
(* in load_models and is left out.  A run is either main(), from its first *)
(* line to its end or to the exception that ends it, or a caller that      *)
(* calls predict on the three constructed backends with any str arguments. *)
(***************************************************************************)
EXTENDS Integers, Sequences, FiniteSets, TLC

VARIABLES
    models,       \* main.py: the list load_models() returned (<<>> before)
    pc,           \* position of main(), or "api" when predict is called directly
    source_lang,  \* main.py:24
    target_lang,  \* main.py:25
    text_input,   \* main.py:28
    i,            \* 1-based position of the for loop of main.py:36
    start_time,   \* main.py:38
    ui,           \* the widgets main() has written so far, in order
    clock,        \* what time.time() returns now, in microseconds
    call,         \* the frame of the predict call in progress
    remote,       \* the remote invocations performed so far, in order
    response      \* the last answer a remote service gave

vars == <<models, pc, source_lang, target_lang, text_input, i, start_time,
          ui, clock, call, remote, response>>

-----------------------------------------------------------------------------
(* Bounds *)

MaxTextLen == 1
MaxTicks == 2
TickMicros == 700

-----------------------------------------------------------------------------
(* Language, model.py:10-17 *)

spanish == "Spanish"
italian == "Italian"
portugees == "Portugees"
catalan == "Catalan"
galician == "Galician"

Language == {spanish, italian, portugees, catalan, galician}

\* predict takes source_lang: str and target_lang: str; a caller of predict
\* can pass a name that is no attribute of Language.
LangInputs == Language \cup {"French"}

-----------------------------------------------------------------------------
(* Character data *)

NonAscii == {"U+00E1", "U+00F3"}
Alphabet == {"\"", "\\", "U+00F3"}

RECURSIVE StrsUpTo(_)
StrsUpTo(n) ==
    IF n = 0 THEN {<<>>}
    ELSE LET shorter == StrsUpTo(n - 1)
         IN  shorter \cup {Append(s, c) : s \in shorter, c \in Alphabet}

Hola == <<"H", "o", "l", "a">>
Ciao == <<"C", "i", "a", "o">>
Ola == <<"O", "l", "U+00E1">>

\* The values a user can type in the text area / pass as text.
Texts == StrsUpTo(MaxTextLen) \cup {Hola}

\* The translations a remote service can answer with.
Translations == {Ciao, Ola, <<"\"", "\\">>}

-----------------------------------------------------------------------------
(* JSON values: the Python objects json.dumps takes and json.loads returns *)

Str(s) == [t |-> "str", s |-> s]
Arr(a) == [t |-> "arr", a |-> a]
Obj(o) == [t |-> "obj", o |-> o]     \* o: sequence of <<key, value>>, in insertion order

\* \uXXXX escapes of the code points of NonAscii
HexOf == ("U+00E1" :> <<"0", "0", "e", "1">>) @@ ("U+00F3" :> <<"0", "0", "f", "3">>)
CodePointOf == (<<"0", "0", "e", "1">> :> "U+00E1") @@ (<<"0", "0", "f", "3">> :> "U+00F3")

\* EscapeAsciiChar without the escape of the double quote
EscapeAsciiCharNoQuote(c) ==
    IF c = "\\" THEN <<"\\", "\\">>
    ELSE IF c = "\n" THEN <<"\\", "n">>
    ELSE IF c \in NonAscii THEN <<"\\", "u">> \o HexOf[c]
    ELSE <<c>>

\* json.encoder.py_encode_basestring_ascii for one character (ensure_ascii=True)
EscapeAsciiChar(c) ==
    IF c = "\"" THEN <<"\\", "\"">>
    ELSE IF c = "\\" THEN <<"\\", "\\">>
    ELSE IF c = "\n" THEN <<"\\", "n">>
    ELSE IF c \in NonAscii THEN <<"\\", "u">> \o HexOf[c]
    ELSE <<c>>

\* json.encoder.py_encode_basestring for one character (ensure_ascii=False)
EscapeChar(c) ==
    IF c \in NonAscii THEN <<c>> ELSE EscapeAsciiChar(c)

RECURSIVE EncodeString(_, _)
EncodeString(s, ensure_ascii) ==
    IF s = <<>> THEN <<>>
    ELSE (IF ensure_ascii THEN EscapeAsciiChar(Head(s)) ELSE EscapeChar(Head(s)))
         \o EncodeString(Tail(s), ensure_ascii)

Quoted(s, ensure_ascii) == <<"\"">> \o EncodeString(s, ensure_ascii) \o <<"\"">>

RECURSIVE JsonEncode(_, _), EncodeItems(_, _), EncodeMembers(_, _)
JsonEncode(v, ensure_ascii) ==
    IF v.t = "str" THEN Quoted(v.s, ensure_ascii)
    ELSE IF v.t = "arr" THEN <<"[">> \o EncodeItems(v.a, ensure_ascii) \o <<"]">>
    ELSE <<"{">> \o EncodeMembers(v.o, ensure_ascii) \o <<"}">>
EncodeItems(a, ensure_ascii) ==
    IF a = <<>> THEN <<>>
    ELSE JsonEncode(Head(a), ensure_ascii)
         \o (IF Tail(a) = <<>> THEN <<>> ELSE <<",", " ">>)
         \o EncodeItems(Tail(a), ensure_ascii)
EncodeMembers(o, ensure_ascii) ==
    IF o = <<>> THEN <<>>
    ELSE Quoted(Head(o)[1], ensure_ascii) \o <<":", " ">>
         \o JsonEncode(Head(o)[2], ensure_ascii)
         \o (IF Tail(o) = <<>> THEN <<>> ELSE <<",", " ">>)
         \o EncodeMembers(Tail(o), ensure_ascii)

\* json.dumps(obj) with its defaults: ensure_ascii=True, separators (", ", ": ")
json_dumps(obj) == JsonEncode(obj, TRUE)

\* F applied to the value of x.  TLC evaluates x once here, where a LET or an
\* operator argument may be evaluated again at each of its uses.
Bind(x, F(_)) == CHOOSE r \in {F(v) : v \in {x}} : TRUE

Fail(n) == [ok |-> FALSE, v |-> Str(<<>>), n |-> n]
Ok(v, n) == [ok |-> TRUE, v |-> v, n |-> n]

RECURSIVE SkipWs(_, _)
SkipWs(s, n) ==
    IF n <= Len(s) /\ s[n] \in {" ", "\n"} THEN SkipWs(s, n + 1) ELSE n

\* json.decoder.BACKSLASH, restricted to the escapes that occur
BACKSLASH == ("\"" :> "\"") @@ ("\\" :> "\\") @@ ("/" :> "/") @@ ("n" :> "\n")

\* json.decoder.py_scanstring: s[n] is the character after the opening quote
RECURSIVE scanstring(_, _, _)
scanstring(s, n, acc) ==
    IF n > Len(s) THEN Fail(n)
    ELSE IF s[n] = "\"" THEN Ok(Str(acc), n + 1)
    ELSE IF s[n] = "\n" THEN Fail(n)
    ELSE IF s[n] # "\\" THEN scanstring(s, n + 1, Append(acc, s[n]))
    ELSE IF n + 1 > Len(s) THEN Fail(n)
    ELSE IF s[n + 1] \in DOMAIN BACKSLASH
         THEN scanstring(s, n + 2, Append(acc, BACKSLASH[s[n + 1]]))
    ELSE IF /\ s[n + 1] = "u"
            /\ n + 5 <= Len(s)
            /\ SubSeq(s, n + 2, n + 5) \in DOMAIN CodePointOf
         THEN scanstring(s, n + 6, Append(acc, CodePointOf[SubSeq(s, n + 2, n + 5)]))
    ELSE Fail(n)

\* json.scanner: strings, arrays and objects (numbers and literals do not
\* occur in the bodies exchanged here and are rejected)
RECURSIVE ParseValue(_, _), ParseArray(_, _, _), ParseObject(_, _, _)
ParseValue(s, n0) ==
    LET n == SkipWs(s, n0)
    IN  IF n > Len(s) THEN Fail(n)
        ELSE IF s[n] = "\"" THEN scanstring(s, n + 1, <<>>)
        ELSE IF s[n] = "["
             THEN LET m == SkipWs(s, n + 1)
                  IN  IF m <= Len(s) /\ s[m] = "]" THEN Ok(Arr(<<>>), m + 1)
                      ELSE ParseArray(s, m, <<>>)
        ELSE IF s[n] = "{"
             THEN LET m == SkipWs(s, n + 1)
                  IN  IF m <= Len(s) /\ s[m] = "}" THEN Ok(Obj(<<>>), m + 1)
                      ELSE ParseObject(s, m, <<>>)
        ELSE Fail(n)
ParseArray(s, n, acc) ==
    Bind(ParseValue(s, n), LAMBDA r :
        IF ~r.ok THEN r
        ELSE Bind(SkipWs(s, r.n), LAMBDA m :
            IF m > Len(s) THEN Fail(m)
            ELSE IF s[m] = "," THEN ParseArray(s, m + 1, Append(acc, r.v))
            ELSE IF s[m] = "]" THEN Ok(Arr(Append(acc, r.v)), m + 1)
            ELSE Fail(m)))
ParseObject(s, n0, acc) ==
    Bind(SkipWs(s, n0), LAMBDA n :
    Bind(IF n <= Len(s) /\ s[n] = "\"" THEN scanstring(s, n + 1, <<>>) ELSE Fail(n), LAMBDA k :
        IF ~k.ok THEN k
        ELSE Bind(SkipWs(s, k.n), LAMBDA c :
             Bind(IF c <= Len(s) /\ s[c] = ":" THEN ParseValue(s, c + 1) ELSE Fail(c), LAMBDA r :
                 IF ~r.ok THEN r
                 ELSE Bind(SkipWs(s, r.n), LAMBDA m :
                     IF m > Len(s) THEN Fail(m)
                     ELSE IF s[m] = ","
                          THEN ParseObject(s, m + 1, Append(acc, <<k.v.s, r.v>>))
                     ELSE IF s[m] = "}"
                          THEN Ok(Obj(Append(acc, <<k.v.s, r.v>>)), m + 1)
                     ELSE Fail(m))))))

\* json.loads(s): one value, then nothing but whitespace
json_loads(s) ==
    Bind(ParseValue(s, 1), LAMBDA r :
        IF r.ok /\ SkipWs(s, r.n) = Len(s) + 1 THEN r ELSE Fail(r.n))

\* bytes.decode('utf-8') and str.encode('utf-8') over ASCII and NonAscii
Utf8Of == ("U+00E1" :> <<"0xC3", "0xA1">>) @@ ("U+00F3" :> <<"0xC3", "0xB3">>)
Utf8Bytes == {"0xC3", "0xA1", "0xB3"}

RECURSIVE Utf8Encode(_)
Utf8Encode(s) ==
    IF s = <<>> THEN <<>>
    ELSE (IF Head(s) \in NonAscii THEN Utf8Of[Head(s)] ELSE <<Head(s)>>)
         \o Utf8Encode(Tail(s))

RECURSIVE Utf8Decode(_, _)
Utf8Decode(b, acc) ==
    IF b = <<>> THEN [ok |-> TRUE, s |-> acc]
    ELSE IF Head(b) \notin Utf8Bytes THEN Utf8Decode(Tail(b), Append(acc, Head(b)))
    ELSE IF Len(b) >= 2 /\ \E c \in NonAscii : Utf8Of[c] = SubSeq(b, 1, 2)
         THEN Utf8Decode(SubSeq(b, 3, Len(b)),
                         Append(acc, CHOOSE c \in NonAscii : Utf8Of[c] = SubSeq(b, 1, 2)))
    ELSE [ok |-> FALSE, s |-> <<>>]

-----------------------------------------------------------------------------
(* TranslateModel and its three subclasses, model.py:20-217 *)

\* What running predict up to its remote call, or to its end, comes to.  self
\* is the instance as predict leaves it.
Return(self, value) == [op |-> "return", self |-> self, value |-> value]
Raise(self, exc) == [op |-> "raise", self |-> self, exc |-> exc]
Invoke(self, request) == [op |-> "invoke", self |-> self, request |-> request]

NotSupported ==
    <<"L", "a", "n", "g", "u", "a", "g", "e", " ", "n", "o", "t", " ",
      "s", "u", "p", "p", "o", "r", "t", "e", "d">>

inputs == <<"i", "n", "p", "u", "t", "s">>
parameters == <<"p", "a", "r", "a", "m", "e", "t", "e", "r", "s">>
src_lang == <<"s", "r", "c", "_", "l", "a", "n", "g">>
tgt_lang == <<"t", "g", "t", "_", "l", "a", "n", "g">>
translation_text ==
    <<"t", "r", "a", "n", "s", "l", "a", "t", "i", "o", "n", "_", "t", "e", "x", "t">>

\* TranslateModel.__init__
TranslateModel(cls, endpoint_name) ==
    [cls |-> cls, endpoint_name |-> endpoint_name, client |-> "sagemaker-runtime"]

\* TranslateModel._invoke_sagemaker_endpoint, the call of client.invoke_endpoint
invoke_sagemaker_endpoint(self, body) ==
    [client |-> self.client,
     operation |-> "invoke_endpoint",
     EndpointName |-> self.endpoint_name,
     Body |-> body,
     ContentType |-> "application/json",
     Accept |-> "application/json"]

\* TranslateModel._invoke_sagemaker_endpoint, its return statement:
\* json.loads(response['Body'].read().decode('utf-8'))
read_sagemaker_response(resp) ==
    Bind(Utf8Decode(resp.Body, <<>>), LAMBDA decoded :
        IF ~decoded.ok THEN [ok |-> FALSE, exc |-> "UnicodeDecodeError"]
        ELSE Bind(json_loads(decoded.s), LAMBDA parsed :
                 IF ~parsed.ok THEN [ok |-> FALSE, exc |-> "JSONDecodeError"]
                 ELSE [ok |-> TRUE, v |-> parsed.v]))

\* the Python value of a JSON value: a str is its characters
PyValue(v) == IF v.t = "str" THEN v.s ELSE v

\* dict lookup on a parsed object: the last member with the key wins
RECURSIVE GetItem(_, _, _)
GetItem(o, key, found) ==
    IF o = <<>> THEN found
    ELSE GetItem(Tail(o), key,
                 IF Head(o)[1] = key THEN [ok |-> TRUE, v |-> Head(o)[2]] ELSE found)

\* prediction[-1]["translation_text"]: the last element in place of the first
last_translation_text(prediction) ==
    IF prediction.t = "obj" THEN [ok |-> FALSE, exc |-> "KeyError"]
    ELSE IF prediction.t = "arr" /\ prediction.a = <<>> THEN [ok |-> FALSE, exc |-> "IndexError"]
    ELSE IF prediction.t = "str" THEN
        [ok |-> FALSE, exc |-> IF prediction.s = <<>> THEN "IndexError" ELSE "TypeError"]
    ELSE LET last == prediction.a[Len(prediction.a)]
         IN  IF last.t # "obj" THEN [ok |-> FALSE, exc |-> "TypeError"]
             ELSE LET item == GetItem(last.o, translation_text,
                                      [ok |-> FALSE, exc |-> "KeyError"])
                  IN  IF item.ok THEN [ok |-> TRUE, v |-> PyValue(item.v)] ELSE item

\* prediction[0]["translation_text"]
first_translation_text(prediction) ==
    IF prediction.t = "obj" THEN [ok |-> FALSE, exc |-> "KeyError"]
    ELSE IF prediction.t = "arr" /\ prediction.a = <<>> THEN [ok |-> FALSE, exc |-> "IndexError"]
    ELSE IF prediction.t = "str" THEN
        [ok |-> FALSE, exc |-> IF prediction.s = <<>> THEN "IndexError" ELSE "TypeError"]
    ELSE LET first == prediction.a[1]
         IN  IF first.t # "obj" THEN [ok |-> FALSE, exc |-> "TypeError"]
             ELSE LET item == GetItem(first.o, translation_text,
                                      [ok |-> FALSE, exc |-> "KeyError"])
                  IN  IF item.ok THEN [ok |-> TRUE, v |-> PyValue(item.v)] ELSE item

\* HelsinkiItc.__init__
HelsinkiItc ==
    TranslateModel("HelsinkiItc",
        <<"h", "e", "l", "s", "i", "n", "k", "i", "-", "n", "l", "p", "-", "o", "p", "u",
          "s", "-", "m", "t", "-", "i", "t", "c", "-", "i", "t", "c">>)
    @@ [lang2iso |->
          (spanish :> <<"s", "p", "a">>) @@ (italian :> <<"i", "t", "a">>)
          @@ (portugees :> <<"p", "o", "r">>) @@ (catalan :> <<"c", "a", "t">>)
          @@ (galician :> <<"g", "l", "g">>)]

\* HelsinkiItc.predict with the guard of the other two backends
HelsinkiItc_predict_guarded(self, text, source, target) ==
    IF source \notin DOMAIN self.lang2iso \/ target \notin DOMAIN self.lang2iso
    THEN Return(self, NotSupported)
    ELSE LET target_iso == self.lang2iso[target]
             body == json_dumps(Obj(<<
                         <<inputs, Str(<<">", ">">> \o target_iso \o <<"<", "<", " ">> \o text)>>
                     >>))
         IN  Invoke(self, invoke_sagemaker_endpoint(self, body))

\* HelsinkiItc.predict, up to the remote call
HelsinkiItc_predict(self, text, source, target) ==
    IF target \notin DOMAIN self.lang2iso THEN Raise(self, "KeyError")
    ELSE LET target_iso == self.lang2iso[target]
             body == json_dumps(Obj(<<
                         <<inputs, Str(<<">", ">">> \o target_iso \o <<"<", "<", " ">> \o text)>>
                     >>))
         IN  Invoke(self, invoke_sagemaker_endpoint(self, body))

\* FacebookMbart.__init__
FacebookMbart ==
    TranslateModel("FacebookMbart",
        <<"f", "a", "c", "e", "b", "o", "o", "k", "-", "m", "b", "a", "r", "t", "-", "l",
          "a", "r", "g", "e", "-", "5", "0", "-", "m", "a", "n", "y", "-", "t", "o", "-",
          "m", "a", "n", "y", "-", "m", "m", "t">>)
    @@ [lang2iso |->
          (spanish :> <<"e", "s", "_", "X", "X">>) @@ (italian :> <<"i", "t", "_", "I", "T">>)
          @@ (portugees :> <<"p", "t", "_", "X", "X">>)]

\* FacebookMbart.predict without its except clause: the KeyError escapes
FacebookMbart_predict_unguarded(self, text, source, target) ==
    IF source \notin DOMAIN self.lang2iso \/ target \notin DOMAIN self.lang2iso
    THEN Raise(self, "KeyError")
    ELSE LET source_iso == self.lang2iso[source]
             target_iso == self.lang2iso[target]
             body == json_dumps(Obj(<<
                         <<inputs, Arr(<<Str(text)>>)>>,
                         <<parameters, Obj(<< <<src_lang, Str(source_iso)>>,
                                              <<tgt_lang, Str(target_iso)>> >>)>>
                     >>))
         IN  Invoke(self, invoke_sagemaker_endpoint(self, body))

\* FacebookMbart.predict, up to the remote call
FacebookMbart_predict(self, text, source, target) ==
    IF source \notin DOMAIN self.lang2iso \/ target \notin DOMAIN self.lang2iso
    THEN Return(self, NotSupported)
    ELSE LET source_iso == self.lang2iso[source]
             target_iso == self.lang2iso[target]
             body == json_dumps(Obj(<<
                         <<inputs, Arr(<<Str(text)>>)>>,
                         <<parameters, Obj(<< <<src_lang, Str(source_iso)>>,
                                              <<tgt_lang, Str(target_iso)>> >>)>>
                     >>))
         IN  Invoke(self, invoke_sagemaker_endpoint(self, body))

\* AwsTranslate.__init__: the client of the base class is replaced
AwsTranslate ==
    [client |-> "translate"]
    @@ TranslateModel("AwsTranslate",
        <<"a", "w", "s", "-", "t", "r", "a", "n", "s", "l", "a", "t", "e">>)
    @@ [lang2iso |->
          (spanish :> <<"e", "s">>) @@ (italian :> <<"i", "t">>)
          @@ (portugees :> <<"p", "t", "-", "P", "T">>) @@ (catalan :> <<"c", "a">>)]

\* AwsTranslate.predict taking the codes with lang2iso.pop(...) in place of
\* lang2iso[...]: the looked-up entries leave the map
AwsTranslate_predict_popping(self, text, source, target) ==
    IF source \notin DOMAIN self.lang2iso \/ target \notin DOMAIN self.lang2iso
    THEN Return(self, NotSupported)
    ELSE LET kept == DOMAIN self.lang2iso \ {source, target}
             popped == [self EXCEPT !.lang2iso = [l \in kept |-> self.lang2iso[l]]]
         IN  Invoke(popped, [client |-> self.client,
                             operation |-> "translate_text",
                             Text |-> text,
                             SourceLanguageCode |-> self.lang2iso[source],
                             TargetLanguageCode |-> self.lang2iso[target]])

\* AwsTranslate.predict, up to the remote call
AwsTranslate_predict(self, text, source, target) ==
    IF source \notin DOMAIN self.lang2iso \/ target \notin DOMAIN self.lang2iso
    THEN Return(self, NotSupported)
    ELSE Invoke(self, [client |-> self.client,
                       operation |-> "translate_text",
                       Text |-> text,
                       SourceLanguageCode |-> self.lang2iso[source],
                       TargetLanguageCode |-> self.lang2iso[target]])

\* model.predict(...): dispatch on the class of the instance
predict(self, text, source, target) ==
    IF self.cls = "HelsinkiItc" THEN HelsinkiItc_predict(self, text, source, target)
    ELSE IF self.cls = "FacebookMbart" THEN FacebookMbart_predict(self, text, source, target)
    ELSE AwsTranslate_predict(self, text, source, target)

\* HelsinkiItc.predict and FacebookMbart.predict, from the answer of the endpoint on
sagemaker_result(resp) ==
    Bind(read_sagemaker_response(resp), LAMBDA prediction :
        IF ~prediction.ok THEN prediction ELSE first_translation_text(prediction.v))

\* AwsTranslate.predict, from the answer of translate_text on
translate_result(resp) == [ok |-> TRUE, v |-> resp.TranslatedText]

\* load_models with the first two backends exchanged
load_models_exchanged == <<FacebookMbart, HelsinkiItc, AwsTranslate>>

\* main.py: load_models
load_models == <<HelsinkiItc, FacebookMbart, AwsTranslate>>

-----------------------------------------------------------------------------
(* The remote services *)

other_text == <<"o", "t", "h", "e", "r">>

Prediction(t) == Obj(<< <<translation_text, Str(t)>> >>)

\* Answers of the documented shape: an array whose first element carries
\* translation_text; a second element may follow.
SageMakerDocs ==
    {Arr(<<Prediction(t)>>) : t \in Translations}
    \cup {Arr(<<Prediction(Ciao), Prediction(other_text)>>)}

\* Bodies that are not of the documented shape: an empty array, a page that is
\* no JSON, a truncated UTF-8 sequence.
MalformedBodies == {<<"[", "]">>, <<"<", "h", "t", "m", "l", ">">>, <<"[", "0xC3">>}

SageMakerBodies ==
    {Bind(JsonEncode(d, ea), LAMBDA s : Utf8Encode(s)) : d \in SageMakerDocs, ea \in BOOLEAN}
    \cup MalformedBodies

SageMakerResponses == {[kind |-> "body", Body |-> b] : b \in SageMakerBodies}

TranslateResponses(req) ==
    {[kind |-> "dict",
      TranslatedText |-> t,
      SourceLanguageCode |-> req.SourceLanguageCode,
      TargetLanguageCode |-> req.TargetLanguageCode] : t \in Translations}

-----------------------------------------------------------------------------
(* A predict call *)

Idle ==
    [state |-> "idle", m |-> 0, text |-> <<>>, source_lang |-> "", target_lang |-> "",
     base |-> 0, ret |-> <<>>, exc |-> ""]

\* models[m].predict(text, source, target) is entered and runs until it
\* returns, raises, or blocks in its remote call.
Predict(m, text, source, target) ==
    /\ call.state = "idle"
    /\ \E step \in {predict(models[m], text, source, target)},
          frame \in {[Idle EXCEPT !.m = m, !.text = text, !.source_lang = source,
                                   !.target_lang = target, !.base = Len(remote)]} :
           /\ models' = [models EXCEPT ![m] = step.self]
           /\ call' = IF step.op = "invoke" THEN [frame EXCEPT !.state = "awaiting"]
                      ELSE IF step.op = "return"
                           THEN [frame EXCEPT !.state = "returned", !.ret = step.value]
                      ELSE [frame EXCEPT !.state = "raised", !.exc = step.exc]
           /\ remote' = IF step.op = "invoke" THEN Append(remote, step.request)
                        ELSE remote

\* The blocked predict call gets the answer resp and runs to its end.
Resume(resp) ==
    \E result \in {IF resp.kind = "body" THEN sagemaker_result(resp)
                    ELSE translate_result(resp)} :
        call' = IF result.ok THEN [call EXCEPT !.state = "returned", !.ret = result.v]
                ELSE [call EXCEPT !.state = "raised", !.exc = result.exc]

\* The remote service answers the invocation the predict call is blocked in.
RemoteRespond ==
    /\ call.state = "awaiting"
    /\ LET req == remote[Len(remote)]
       IN  \E resp \in IF req.operation = "invoke_endpoint" THEN SageMakerResponses
                        ELSE TranslateResponses(req) :
               /\ response' = resp
               /\ Resume(resp)
    /\ UNCHANGED <<models, pc, source_lang, target_lang, text_input, i, start_time,
                   ui, clock, remote>>

\* A failed invocation is sent once more instead of being raised.
RemoteFailRetried ==
    /\ call.state = "awaiting"
    /\ Len(remote) - call.base < 2
    /\ response' = [kind |-> "error"]
    /\ remote' = Append(remote, remote[Len(remote)])
    /\ UNCHANGED <<models, pc, source_lang, target_lang, text_input, i, start_time,
                   ui, clock, call>>

\* The remote invocation fails (network error, non-2xx status, missing
\* credentials): the client raises and predict does not catch it.
RemoteFail ==
    /\ call.state = "awaiting"
    /\ response' = [kind |-> "error"]
    /\ call' = [call EXCEPT !.state = "raised", !.exc = "ClientError"]
    /\ UNCHANGED <<models, pc, source_lang, target_lang, text_input, i, start_time,
                   ui, clock, remote>>

-----------------------------------------------------------------------------
(* main.py: main *)

languages == <<spanish, italian, portugees, catalan, galician>>

\* the options of the target selectbox without the filter
target_options_unfiltered(source) == languages

\* [lang for lang in languages if lang != source_lang]
target_options(source) == SelectSeq(languages, LAMBDA lang : lang # source)

\* round(seconds, 3), of a duration in microseconds, in milliseconds
round3(micros) == (micros + 500) \div 1000

Title == [widget |-> "title"]
Header(endpoint_name) ==
    [widget |-> "header", text |-> <<"M", "o", "d", "e", "l", " ">> \o endpoint_name]
Subheader(translation) == [widget |-> "subheader", text |-> translation]
Write(millis) == [widget |-> "write", millis |-> millis]

\* main.py:20-24
SelectSource ==
    /\ pc = "start"
    /\ ui' = Append(ui, Title)
    /\ \E k \in 1..Len(languages) : source_lang' = languages[k]
    /\ pc' = "target"
    /\ UNCHANGED <<models, target_lang, text_input, i, start_time, clock, call,
                   remote, response>>

\* main.py:25
SelectTarget ==
    /\ pc = "target"
    /\ LET options == target_options(source_lang)
       IN  \E k \in 1..Len(options) : target_lang' = options[k]
    /\ pc' = "models"
    /\ UNCHANGED <<models, source_lang, text_input, i, start_time, ui, clock, call,
                   remote, response>>

\* main.py:26
LoadModels ==
    /\ pc = "models"
    /\ models' = load_models
    /\ pc' = "text"
    /\ UNCHANGED <<source_lang, target_lang, text_input, i, start_time, ui, clock,
                   call, remote, response>>

\* main.py:28-34
TextArea ==
    /\ pc = "text"
    /\ \E text \in Texts : text_input' = text
    /\ i' = 1
    /\ pc' = "loop"
    /\ UNCHANGED <<models, source_lang, target_lang, start_time, ui, clock, call,
                   remote, response>>

\* main.py:36-39, until predict returns, raises or blocks
LoopBegin ==
    /\ pc = "loop"
    /\ i <= Len(models)
    /\ ui' = Append(ui, Header(models[i].endpoint_name))
    /\ start_time' = clock
    /\ Predict(i, text_input, source_lang, target_lang)
    /\ pc' = "predict"
    /\ UNCHANGED <<source_lang, target_lang, text_input, i, clock, response>>

\* main.py:39-41, once predict has returned
LoopEnd ==
    /\ pc = "predict"
    /\ call.state = "returned"
    /\ ui' = ui \o <<Subheader(call.ret), Write(round3(clock - start_time))>>
    /\ i' = i + 1
    /\ call' = Idle
    /\ pc' = "loop"
    /\ UNCHANGED <<models, source_lang, target_lang, text_input, start_time, clock,
                   remote, response>>

\* The exception is caught in the loop and the next backend is tried.
PropagateCaught ==
    /\ pc = "predict"
    /\ call.state = "raised"
    /\ i' = i + 1
    /\ call' = Idle
    /\ pc' = "loop"
    /\ UNCHANGED <<models, source_lang, target_lang, text_input, start_time, ui,
                   clock, remote, response>>

\* main.py:39: predict raised; main has no handler and the run ends there
Propagate ==
    /\ pc = "predict"
    /\ call.state = "raised"
    /\ pc' = "aborted"
    /\ UNCHANGED <<models, source_lang, target_lang, text_input, i, start_time, ui,
                   clock, call, remote, response>>

\* main.py:36: the list is exhausted and main returns
LoopExit ==
    /\ pc = "loop"
    /\ i > Len(models)
    /\ pc' = "done"
    /\ UNCHANGED <<models, source_lang, target_lang, text_input, i, start_time, ui,
                   clock, call, remote, response>>

\* Time passes between the two calls of time.time() of main.py:38 and 41.
Tick ==
    /\ pc = "predict"
    /\ clock < MaxTicks * TickMicros
    /\ clock' = clock + TickMicros
    /\ UNCHANGED <<models, pc, source_lang, target_lang, text_input, i, start_time,
                   ui, call, remote, response>>

-----------------------------------------------------------------------------
(* predict called directly, outside main *)

ApiCall ==
    /\ pc = "api"
    /\ call.state = "idle"
    /\ \E m \in 1..Len(models), text \in Texts, source \in LangInputs, target \in LangInputs :
           Predict(m, text, source, target)
    /\ UNCHANGED <<pc, source_lang, target_lang, text_input, i, start_time, ui, clock,
                   response>>

\* The caller has the outcome and inspects the invocations; the next call
\* starts from an empty record of them.
ApiReturn ==
    /\ pc = "api"
    /\ call.state \in {"returned", "raised"}
    /\ call' = Idle
    /\ remote' = <<>>
    /\ response' = [kind |-> "none"]
    /\ UNCHANGED <<models, pc, source_lang, target_lang, text_input, i, start_time,
                   ui, clock>>

-----------------------------------------------------------------------------

InitCommon ==
    /\ source_lang = ""
    /\ target_lang = ""
    /\ text_input = <<>>
    /\ i = 0
    /\ start_time = 0
    /\ ui = <<>>
    /\ clock = 0
    /\ call = Idle
    /\ remote = <<>>
    /\ response = [kind |-> "none"]

\* A run of main(), or the three backends constructed for direct calls.
Init ==
    /\ InitCommon
    /\ \/ pc = "start" /\ models = <<>>
       \/ pc = "api" /\ models = load_models

Next ==
    \/ SelectSource
    \/ SelectTarget
    \/ LoadModels
    \/ TextArea
    \/ LoopBegin
    \/ RemoteRespond
    \/ RemoteFail
    \/ LoopEnd
    \/ Propagate
    \/ LoopExit
    \/ Tick
    \/ ApiCall
    \/ ApiReturn

Spec == Init /\ [][Next]_vars

-----------------------------------------------------------------------------
(* Vocabulary of the properties *)

\* The language codes of the table of section 6 of the specification.
Section6 ==
    [HelsinkiItc |->
        (spanish :> <<"s", "p", "a">>) @@ (italian :> <<"i", "t", "a">>)
        @@ (portugees :> <<"p", "o", "r">>) @@ (catalan :> <<"c", "a", "t">>)
        @@ (galician :> <<"g", "l", "g">>),
     FacebookMbart |->
        (spanish :> <<"e", "s", "_", "X", "X">>) @@ (italian :> <<"i", "t", "_", "I", "T">>)
        @@ (portugees :> <<"p", "t", "_", "X", "X">>),
     AwsTranslate |->
        (spanish :> <<"e", "s">>) @@ (italian :> <<"i", "t">>)
        @@ (portugees :> <<"p", "t", "-", "P", "T">>) @@ (catalan :> <<"c", "a">>)]

ConfiguredOrder == <<"HelsinkiItc", "FacebookMbart", "AwsTranslate">>

\* The predict call in progress (entered, and not yet handed back to its caller).
InCall == call.state # "idle"
Callee == models[call.m]

\* Either language of the call is absent from the callee's own lang2iso.
AbsentFromMap ==
    \/ call.source_lang \notin DOMAIN Callee.lang2iso
    \/ call.target_lang \notin DOMAIN Callee.lang2iso

\* The pair of the call is supported by the callee according to section 6.
SupportedPair ==
    /\ call.source_lang \in DOMAIN Section6[Callee.cls]
    /\ call.target_lang \in DOMAIN Section6[Callee.cls]

\* Remote invocations the call in progress has performed.
Invocations == Len(remote) - call.base
LastRequest == remote[Len(remote)]

\* Results (subheaders) main has shown.
Results == {k \in 1..Len(ui) : ui[k].widget = "subheader"}
Headers == {k \in 1..Len(ui) : ui[k].widget = "header"}

\* Position, in configured order, of the backend a request went to.
PositionOf(req) ==
    IF req.operation = "translate_text" THEN 3
    ELSE IF req.EndpointName = HelsinkiItc.endpoint_name THEN 1
    ELSE 2

-----------------------------------------------------------------------------
(* C1 *)

\* C1: whenever either language of a predict call is absent from the callee's
\* lang2iso map, the call returns "Language not supported" and has performed
\* no remote invocation.  HelsinkiItc.predict has no such guard.
C1_UnsupportedGivesSentinel ==
    (InCall /\ AbsentFromMap) =>
        /\ call.state = "returned"
        /\ call.ret = NotSupported
        /\ Invocations = 0

-----------------------------------------------------------------------------
(* C2 *)

Failed == pc = "aborted" \/ (pc = "predict" /\ call.state = "raised")

\* C2: in a run of main, once the call of backend i has raised, the run only
\* aborts: no step after that shows a widget, performs a remote invocation or
\* moves to another backend; at that point exactly the i - 1 earlier backends
\* have a result shown and no request went to a backend after position i.
C2_FailureAborts ==
    /\ [](Failed =>
            /\ Cardinality(Results) = i - 1
            /\ Cardinality(Headers) = i
            /\ \A j \in 1..Len(remote) : PositionOf(remote[j]) <= i)
    /\ [][Failed => (ui' = ui /\ remote' = remote /\ i' = i /\ pc' \in {pc, "aborted"})]_vars

\* The second backend's invocation failed after the first one's result was shown.
C2_Witness ==
    /\ pc = "aborted"
    /\ i = 2
    /\ call.exc = "ClientError"
    /\ Cardinality(Results) = 1

-----------------------------------------------------------------------------
(* C3 *)

\* The instance main constructs for a class name of ConfiguredOrder.
InstanceOf(cls) ==
    IF cls = "HelsinkiItc" THEN HelsinkiItc
    ELSE IF cls = "FacebookMbart" THEN FacebookMbart
    ELSE AwsTranslate

\* C3: after the title, main's output is a sequence of blocks (header, result,
\* elapsed time), block b being that of the b-th backend of the configured
\* order HelsinkiItc, FacebookMbart, AwsTranslate, whatever the elapsed times;
\* the requests sent are in that order too, and a request goes to backend b
\* only when the results of all backends before b are shown.
C3_ConfiguredOrder ==
    pc # "api" =>
        /\ \A k \in 2..Len(ui) :
               LET b == ((k - 2) \div 3) + 1
                   part == (k - 2) % 3
               IN  /\ b <= Len(ConfiguredOrder)
                   /\ ui[k].widget = <<"header", "subheader", "write">>[part + 1]
                   /\ part = 0 =>
                        ui[k].text = <<"M", "o", "d", "e", "l", " ">>
                                     \o InstanceOf(ConfiguredOrder[b]).endpoint_name
        /\ \A j \in 1..Len(remote) :
               /\ PositionOf(remote[j]) <= Cardinality(Results) + 1
               /\ \A h \in 1..(j - 1) : PositionOf(remote[h]) < PositionOf(remote[j])
        /\ InCall => (call.m = Cardinality(Results) + 1
                      /\ Callee.cls = ConfiguredOrder[call.m])

\* A finished run in which the first backend took longer than the second.
C3_Witness ==
    /\ pc = "done"
    /\ Len(ui) = 10
    /\ ui[4].millis > ui[7].millis
    /\ Len(remote) = 3

-----------------------------------------------------------------------------
(* C4 *)

\* C4: a backend that returns the sentinel does not end the run.  The run
\* aborts only on a call that raised, never on one that returned; a backend
\* that does not support the pair has the sentinel shown as its result, and a
\* run that reaches its end has shown one result for each of the three
\* configured backends and has invoked every backend that supports the pair.
C4_SentinelDoesNotAbort ==
    pc # "api" =>
        /\ pc = "aborted" => (call.state = "raised" /\ Invocations = 1)
        /\ \A k \in Results :
               LET b == ((k - 2) \div 3) + 1
                   codes == Section6[ConfiguredOrder[b]]
               IN  (source_lang \notin DOMAIN codes \/ target_lang \notin DOMAIN codes)
                       => ui[k].text = NotSupported
        /\ pc = "done" =>
               /\ Cardinality(Results) = Len(ConfiguredOrder)
               /\ \A b \in 1..Len(ConfiguredOrder) :
                      LET codes == Section6[ConfiguredOrder[b]]
                      IN  (source_lang \in DOMAIN codes /\ target_lang \in DOMAIN codes)
                              => \E j \in 1..Len(remote) : PositionOf(remote[j]) = b

\* A finished run where FacebookMbart answered with the sentinel and
\* AwsTranslate, after it, with a translation.
C4_Witness ==
    /\ pc = "done"
    /\ Len(ui) = 10
    /\ ui[6].text = NotSupported
    /\ ui[9].text = Ciao
    /\ Len(remote) = 2

-----------------------------------------------------------------------------
(* C5 *)

ExampleBodyA ==
    <<"{", "\"", "i", "n", "p", "u", "t", "s", "\"", ":", " ", "\"", ">", ">", "i", "t",
      "a", "<", "<", " ", "H", "o", "l", "a", "\"", "}">>

\* req is the documented request of class cls for (text, source, target).
DocumentedRequest(cls, text, source, target, req) ==
    LET codes == Section6[cls]
    IN  IF cls = "HelsinkiItc" THEN
            /\ req.operation = "invoke_endpoint"
            /\ req.ContentType = "application/json"
            /\ json_loads(req.Body).ok
            /\ json_loads(req.Body).v =
                 Obj(<< <<inputs, Str(<<">", ">">> \o codes[target] \o <<"<", "<", " ">> \o text)>> >>)
        ELSE IF cls = "FacebookMbart" THEN
            /\ req.operation = "invoke_endpoint"
            /\ req.ContentType = "application/json"
            /\ json_loads(req.Body).ok
            /\ json_loads(req.Body).v =
                 Obj(<< <<inputs, Arr(<<Str(text)>>)>>,
                        <<parameters, Obj(<< <<src_lang, Str(codes[source])>>,
                                             <<tgt_lang, Str(codes[target])>> >>)>> >>)
        ELSE
            /\ req.operation = "translate_text"
            /\ req.Text = text
            /\ req.SourceLanguageCode = codes[source]
            /\ req.TargetLanguageCode = codes[target]

\* C5: a predict call for a pair its backend supports has sent a request, and
\* that request, read back as JSON, is the documented one with the codes of
\* section 6; HelsinkiItc with "Hola", Spanish to Italian sends exactly
\* {"inputs": ">>ita<< Hola"}.
C5_RequestShape ==
    (InCall /\ SupportedPair) =>
        /\ Invocations >= 1
        /\ DocumentedRequest(Callee.cls, call.text, call.source_lang, call.target_lang,
                             LastRequest)
        /\ (Callee.cls = "HelsinkiItc" /\ call.text = Hola /\ call.target_lang = italian)
               => LastRequest.Body = ExampleBodyA

\* FacebookMbart is blocked in the request for a text that needs escaping.
C5_Witness ==
    /\ call.state = "awaiting"
    /\ Callee.cls = "FacebookMbart"
    /\ call.text = <<"\"">>
    /\ call.source_lang = portugees
    /\ call.target_lang = italian

-----------------------------------------------------------------------------
(* C6 *)

\* The bodies of documented shape, each with the translation_text of its
\* first element.
DocumentedBodies ==
    {<<Bind(JsonEncode(d, ea), LAMBDA s : Utf8Encode(s)), d.a[1].o[1][2].s>> :
        d \in SageMakerDocs, ea \in BOOLEAN}

\* C6: when the remote answer has the documented shape, predict returns, and
\* what it returns is the translation_text of the first element of the array
\* (HelsinkiItc, FacebookMbart) or the TranslatedText field (AwsTranslate),
\* character for character.
C6_ReturnsDocumentedField ==
    (call.state \in {"returned", "raised"} /\ Invocations >= 1) =>
        /\ response.kind = "body" =>
               \A e \in DocumentedBodies :
                   response.Body = e[1] => (call.state = "returned" /\ call.ret = e[2])
        /\ response.kind = "dict" =>
               (call.state = "returned" /\ call.ret = response.TranslatedText)

\* A two-element answer, and an answer in raw UTF-8, have been returned from.
C6_Witness ==
    /\ call.state = "returned"
    /\ Invocations = 1
    /\ response.kind = "body"
    /\ \E k \in 1..Len(response.Body) : response.Body[k] = ","
    /\ call.ret = Ciao

-----------------------------------------------------------------------------
(* C7 *)

\* C7: a predict call performs at most one remote invocation, exactly one
\* when its backend supports the pair, also after the invocation failed; a
\* run of main sends at most one request to each configured backend.
C7_NoRetries ==
    /\ InCall => Invocations \in {0, 1}
    /\ (InCall /\ SupportedPair) => Invocations = 1
    /\ pc # "api" =>
           \A b \in 1..Len(ConfiguredOrder) :
               Cardinality({j \in 1..Len(remote) : PositionOf(remote[j]) = b}) <= 1

\* The single invocation of a call failed and the call raised.
C7_Witness ==
    /\ call.state = "raised"
    /\ call.exc = "ClientError"
    /\ Invocations = 1

-----------------------------------------------------------------------------
(* C8 *)

\* C8: once constructed, the backends never change: no step of any predict
\* call, whatever its outcome, changes a lang2iso map, an endpoint_name or a
\* client of any instance.
C8_PredictMutatesNothing ==
    [][models # <<>> => models' = models]_vars

\* Calls have returned a translation, returned the sentinel, and raised.
C8_Witness ==
    /\ pc = "aborted"
    /\ i = 3
    /\ ui[6].text = NotSupported
    /\ ui[3].text = Ola

-----------------------------------------------------------------------------
(* C9 *)

\* C9: in a run of main, source and target are two different values of
\* Language, and every predict call is made with exactly that pair.
C9_SourceDiffersFromTarget ==
    /\ pc \in {"models", "text", "loop", "predict", "done", "aborted"} =>
           /\ source_lang \in Language
           /\ target_lang \in Language
           /\ source_lang # target_lang
    /\ (pc # "api" /\ InCall) =>
           /\ call.source_lang = source_lang
           /\ call.target_lang = target_lang
           /\ call.source_lang # call.target_lang

\* A call with a source other than the default and the first remaining target.
C9_Witness ==
    /\ pc = "predict"
    /\ call.state = "awaiting"
    /\ call.source_lang = italian
    /\ call.target_lang = spanish

-----------------------------------------------------------------------------
(* C10 *)

\* C10: what HelsinkiItc.predict does is the same for every source language:
\* with the text and target of the call in progress, every source leads to the
\* request that was sent (or to none, if none was sent); and for a pair of
\* Language values the call has performed exactly one invocation, so it has
\* not answered with the sentinel.
C10_HelsinkiIgnoresSource ==
    (InCall /\ Callee.cls = "HelsinkiItc") =>
        /\ \A source \in LangInputs :
               LET step == predict(Callee, call.text, source, call.target_lang)
               IN  /\ (step.op = "invoke") = (Invocations = 1)
                   /\ step.op = "invoke" => step.request = LastRequest
                   /\ step.op # "return"
        /\ (call.source_lang \in Language /\ call.target_lang \in Language) =>
               Invocations = 1

\* HelsinkiItc was called with a source that is no Language value and sent
\* its request all the same.
C10_Witness ==
    /\ call.state = "awaiting"
    /\ Callee.cls = "HelsinkiItc"
    /\ call.source_lang \notin Language
    /\ call.target_lang = galician

====
